---- MODULE Spec2Model ----
(***************************************************************************)
(* A model of the alien HTTP router (src/alien.go): the per-method         *)
(* character trie (Node.insert / Node.find), parameter extraction          *)
(* (ParseParameter, Parameter.Load, GetParameter), Route invocation        *)
(* through its middleware chain, and the Mux handle (AddRoute, Group, Use, *)
(* NotFoundHandler, ContainsRoute, ServeHTTP).  Calls made one after the   *)
(* other are one action each; Router.addRoute and Router.find called from  *)
(* several goroutines take one step per read or write of shared memory,    *)
(* with Node.mutex as the code takes it.                                   *)
(*                                                                         *)
(* Strings are sequences of one-character strings.  Pointers are indices   *)
(* into heaps (nodes, routes, muxes); 0 is nil.  A Go slice is a record     *)
(* [arr, len] over a backing array of the arrays heap, whose length is the *)
(* slice's capacity; a backing array is named after the handle or Route    *)
(* whose append allocated it and its capacity, and is dropped from the     *)
(* heap when no slice refers to it any more.                               *)
(***************************************************************************)
EXTENDS Integers, Sequences, FiniteSets, TLC

VARIABLES
    nodes,      \* heap of trie Nodes: [key, value, classify, children]
    router,     \* the Router: method -> root Node (0 = nil)
    routes,     \* heap of Routes: [path, handler, middleware]
    arrays,     \* heap of backing arrays of the middleware slices
    muxes,      \* heap of Mux handles: [prefix, notFound, middleware]
    ghost,      \* history, one per Mux: [parent, arg, want, own]
    regs,       \* history of the AddRoute calls
    resp,       \* what the last call returned or did
    goroutines, \* calls of addRoute and find in progress, one per goroutine
    mutex       \* Node.mutex of the root Nodes: [w, r], the roots locked for
                \* writing and the <<root, goroutine>> read locks held

vars == <<nodes, router, routes, arrays, muxes, ghost, regs, resp,
          goroutines, mutex>>

---------------------------------------------------------------------------
(* Strings                                                                 *)

Min(S) == CHOOSE x \in S : \A y \in S : x <= y

\* strings.Contains(s, c) for a one-character c
Contains(s, c) == \E i \in 1..Len(s) : s[i] = c

\* strings.Split(s, sep) for a one-character sep
RECURSIVE Split(_, _)
Split(s, sep) ==
    IF ~Contains(s, sep) THEN <<s>>
    ELSE LET i == Min({j \in 1..Len(s) : s[j] = sep})
         IN  <<SubSeq(s, 1, i - 1)>> \o Split(SubSeq(s, i + 1, Len(s)), sep)

\* strings.Join(list, sep)
RECURSIVE JoinStr(_, _)
JoinStr(list, sep) ==
    IF Len(list) = 0 THEN <<>>
    ELSE IF Len(list) = 1 THEN list[1]
    ELSE list[1] \o <<sep>> \o JoinStr(Tail(list), sep)

\* path.Clean: the lexical processing of the segments of a path.  stack holds
\* the segments kept so far.
RECURSIVE CleanSegs(_, _, _)
CleanSegs(segs, stack, rooted) ==
    IF Len(segs) = 0 THEN stack
    ELSE LET s == Head(segs)
             rest == Tail(segs)
         IN  IF s = <<>> \/ s = <<".">> THEN CleanSegs(rest, stack, rooted)
             ELSE IF s = <<".", ".">>
                  THEN IF Len(stack) > 0 /\ stack[Len(stack)] # <<".", ".">>
                       THEN CleanSegs(rest, SubSeq(stack, 1, Len(stack) - 1), rooted)
                       ELSE IF rooted THEN CleanSegs(rest, stack, rooted)
                       ELSE CleanSegs(rest, Append(stack, s), rooted)
                  ELSE CleanSegs(rest, Append(stack, s), rooted)

Clean(p) ==
    IF p = <<>> THEN <<".">>
    ELSE LET rooted == p[1] = "/"
             kept == CleanSegs(Split(p, "/"), <<>>, rooted)
         IN  IF rooted THEN <<"/">> \o JoinStr(kept, "/")
             ELSE IF Len(kept) = 0 THEN <<".">>
             ELSE JoinStr(kept, "/")

\* path.Join(a, b): the non-empty elements joined with "/", then cleaned
Join(a, b) ==
    IF a = <<>> /\ b = <<>> THEN <<>>
    ELSE IF a = <<>> THEN Clean(b)
    ELSE IF b = <<>> THEN Clean(a)
    ELSE Clean(a \o <<"/">> \o b)

---------------------------------------------------------------------------
(* Trie nodes                                                              *)

eof == "eof"                 \* rune(0), no character of a pattern or path
NodeRoot == "NodeRoot"
nodeParam == "nodeParam"
nodeNormal == "nodeNormal"
nodeCatchAll == "nodeCatchAll"
nodeEnd == "nodeEnd"

errNil == "nil"
errRouteNotFound == "Route not found"
errBadPattern == "bad pattern"
errUnknownMethod == "unknown http method"
errNonRoot == "insert on non root node"
errEmptyPattern == "empty pattern is not support"
errNoSlash == "path must start with '/'"

AllMethod == {"GET", "PUT", "POST", "HEAD", "PATCH", "TRACE", "DELETE",
              "OPTIONS", "CONNECT"}

\* node.branch: a new Node appended to node's children; its id is Len(ns) + 1
branch(ns, node, key, value, classify) ==
    Append([ns EXCEPT ![node].children = Append(@, Len(ns) + 1)],
           [key |-> key, value |-> value, classify |-> classify,
            children |-> <<>>])

\* node.findChild: the first child with the key, or nil
findChild(ns, node, key) ==
    LET ch == ns[node].children
        hit == {i \in 1..Len(ch) : ns[ch[i]].key = key}
    IN  IF hit = {} THEN 0 ELSE ch[Min(hit)]

\* the classification insert gives a new child
classOf(character) ==
    IF character = ":" THEN nodeParam
    ELSE IF character = "*" THEN nodeCatchAll
    ELSE nodeNormal

\* one iteration of the loop of node.insert at character
insertStep(ns, level, character) ==
    LET child == findChild(ns, level, character)
    IN  IF ns[level].classify = nodeParam /\ character # "/"
        THEN [nodes |-> ns, level |-> level]
        ELSE IF child # 0
        THEN [nodes |-> ns, level |-> child]
        ELSE [nodes |-> branch(ns, level, character, 0, classOf(character)),
              level |-> Len(ns) + 1]

\* the loop of node.insert over the pattern's characters
RECURSIVE insertLoop(_, _, _, _)
insertLoop(ns, level, pattern, index) ==
    IF index > Len(pattern) THEN [nodes |-> ns, level |-> level]
    ELSE LET s == insertStep(ns, level, pattern[index])
         IN  insertLoop(s.nodes, s.level, pattern, index + 1)

\* the end of node.insert: the Route stored below the last level
insertEnd(ns, level, value) == branch(ns, level, eof, value, nodeEnd)

\* node.insert with the pattern looked at after the loop
insertThenCheck(ns, node, pattern, value) ==
    IF ns[node].classify # NodeRoot THEN [nodes |-> ns, err |-> errNonRoot]
    ELSE LET r == insertLoop(ns, node, pattern, 1)
             done == insertEnd(r.nodes, r.level, value)
         IN  IF pattern = <<>> THEN [nodes |-> done, err |-> errEmptyPattern]
             ELSE IF pattern[1] # "/" THEN [nodes |-> done, err |-> errNoSlash]
             ELSE [nodes |-> done, err |-> errNil]

\* node.insert
insert(ns, node, pattern, value) ==
    IF ns[node].classify # NodeRoot THEN [nodes |-> ns, err |-> errNonRoot]
    ELSE IF pattern = <<>> THEN [nodes |-> ns, err |-> errEmptyPattern]
    ELSE IF pattern[1] # "/" THEN [nodes |-> ns, err |-> errNoSlash]
    ELSE LET r == insertLoop(ns, node, pattern, 1)
         IN  [nodes |-> insertEnd(r.nodes, r.level, value), err |-> errNil]

\* findStep with the literal child tried before the parameter child
findStepLiteralFirst(ns, level, isParam, ch) ==
    LET c == findChild(ns, level, ch)
        param == findChild(ns, level, ":")
        catchAll == findChild(ns, level, "*")
    IN  IF isParam /\ ch # "/"
        THEN [level |-> level, isParam |-> TRUE, go |-> "continue"]
        ELSE IF c # 0 /\ ch # ":" /\ ch # "*"
        THEN [level |-> c, isParam |-> FALSE, go |-> "continue"]
        ELSE IF param # 0
        THEN [level |-> param, isParam |-> TRUE, go |-> "continue"]
        ELSE IF catchAll # 0
        THEN [level |-> catchAll, isParam |-> FALSE, go |-> "break"]
        ELSE [level |-> 0, isParam |-> FALSE, go |-> "return"]

\* one iteration of the loop of node.find at character ch
findStep(ns, level, isParam, ch) ==
    LET c == findChild(ns, level, ch)
        param == findChild(ns, level, ":")
        catchAll == findChild(ns, level, "*")
    IN  IF isParam /\ ch # "/"
        THEN [level |-> level, isParam |-> TRUE, go |-> "continue"]
        ELSE IF param # 0
        THEN [level |-> param, isParam |-> TRUE, go |-> "continue"]
        ELSE IF catchAll # 0
        THEN [level |-> catchAll, isParam |-> FALSE, go |-> "break"]
        ELSE IF c # 0
        THEN [level |-> c, isParam |-> FALSE, go |-> "continue"]
        ELSE [level |-> 0, isParam |-> FALSE, go |-> "return"]

\* the loop of node.find: the level it ends on, or -1 when it returned
\* errRouteNotFound from inside the loop
RECURSIVE findLoop(_, _, _, _, _)
findLoop(ns, level, isParam, path, k) ==
    IF k > Len(path) THEN level
    ELSE LET s == findStep(ns, level, isParam, path[k])
         IN  IF s.go = "return" THEN -1
             ELSE IF s.go = "break" THEN s.level
             ELSE findLoop(ns, s.level, s.isParam, path, k + 1)

\* the end of node.find: the Route below level, or below level's "/" child
findEnd(ns, level) ==
    LET end == findChild(ns, level, eof)
        slash == findChild(ns, level, "/")
        end2 == IF slash # 0 THEN findChild(ns, slash, eof) ELSE 0
    IN  IF end # 0 THEN [route |-> ns[end].value, err |-> errNil]
        ELSE IF end2 # 0 THEN [route |-> ns[end2].value, err |-> errNil]
        ELSE [route |-> 0, err |-> errRouteNotFound]

\* node.find
find(ns, node, path) ==
    IF ns[node].classify # NodeRoot THEN [route |-> 0, err |-> "non Node search"]
    ELSE LET level == IF path = <<>> THEN 0 ELSE findLoop(ns, node, FALSE, path, 1)
         IN  IF level > 0 THEN findEnd(ns, level)
             ELSE [route |-> 0, err |-> errRouteNotFound]

---------------------------------------------------------------------------
(* Slices of middleware                                                    *)

nilArr == <<"nil", 0, 0>>
nilSlice == [arr |-> nilArr, len |-> 0]
nilFunc == "nil"             \* the zero value of an array slot
noArrays == [a \in {} |-> <<>>]

\* the elements a slice shows: the first len slots of its backing array
view(arrs, s) == IF s.arr = nilArr THEN <<>> ELSE SubSeq(arrs[s.arr], 1, s.len)

capOf(arrs, s) == IF s.arr = nilArr THEN 0 ELSE Len(arrs[s.arr])

\* the capacity append allocates when the old one is too small (the gc
\* runtime's growslice: the needed length if that is more than twice the old
\* capacity, else twice the old capacity, rounded up to an allocation size
\* class: for 8-byte elements 1, 2, 3, 4, 6, 8, ...)
growCap(old, needed) ==
    LET want == IF needed > 2 * old THEN needed ELSE 2 * old
    IN  IF want <= 4 THEN want ELSE IF want % 2 = 0 THEN want ELSE want + 1

\* append(s, elems...): in place when the capacity allows it, else into a
\* new array, named after its owner and capacity; [arrays, slice]
appendSlice(arrs, s, elems, owner) ==
    LET needed == s.len + Len(elems)
        old == capOf(arrs, s)
        newcap == growCap(old, needed)
        all == view(arrs, s) \o elems
        id == <<owner[1], owner[2], newcap>>
    IN  IF needed <= old
        THEN [arrays |-> [arrs EXCEPT ![s.arr] =
                              [i \in 1..old |-> IF i > s.len /\ i <= needed
                                                THEN elems[i - s.len] ELSE @[i]]],
              slice |-> [arr |-> s.arr, len |-> needed]]
        ELSE [arrays |-> [a \in DOMAIN arrs \cup {id} |->
                              IF a = id
                              THEN [i \in 1..newcap |->
                                       IF i <= needed THEN all[i] ELSE nilFunc]
                              ELSE arrs[a]],
              slice |-> [arr |-> id, len |-> needed]]

-----
(* Route                                                                   *)

\* the middlewares that answer themselves and never call the handler they wrap
Blocking == {"stop"}

\* wrap with the new middleware put inside the ones already there
wrapInside(middleware, base) ==
    SubSeq(base, 1, Len(base) - 1) \o <<middleware, base[Len(base)]>>

\* middleware(base): a handler that enters middleware first; base is the
\* sequence of what the wrapped handler enters, in order
wrap(middleware, base) == <<middleware>> \o base

\* the loop of Route.ServeHTTP over route.middleware
RECURSIVE wrapLoop(_, _, _)
wrapLoop(list, i, base) ==
    IF i > Len(list) THEN base
    ELSE wrapLoop(list, i + 1, wrap(list[i], base))

\* base.ServeHTTP(response, request): what runs, in order
RECURSIVE serve(_)
serve(base) ==
    IF Len(base) <= 1 THEN base
    ELSE IF Head(base) \in Blocking THEN <<Head(base)>>
    ELSE <<Head(base)>> \o serve(Tail(base))

\* Route.ServeHTTP
RouteServeHTTP(arrs, route) ==
    serve(wrapLoop(view(arrs, route.middleware), 1, <<route.handler>>))

---------------------------------------------------------------------------
(* Parameters                                                              *)

catch == <<"c", "a", "t", "c", "h">>

addResult(result, name, value) ==
    IF Len(result) = 0 THEN name \o <<":">> \o value
    ELSE result \o <<",">> \o name \o <<":">> \o value

\* the loop of ParseParameter over the pattern's segments p2
RECURSIVE parseLoop(_, _, _, _)
parseLoop(p1, p2, k, result) ==
    IF k > Len(p2) THEN [result |-> result, err |-> errNil]
    ELSE LET v == p2[k]
         IN  IF Len(v) > 0 /\ v[1] = ":"
             THEN parseLoop(p1, p2, k + 1, addResult(result, Tail(v), p1[k]))
             ELSE IF Len(v) > 0 /\ v[1] = "*"
             THEN IF k # Len(p2)
                  THEN [result |-> result, err |-> errBadPattern]
                  ELSE [result |-> addResult(result,
                                      IF Len(v) > 1 THEN Tail(v) ELSE catch,
                                      JoinStr(SubSeq(p1, k, Len(p1)), "/")),
                        err |-> errNil]
             ELSE parseLoop(p1, p2, k + 1, result)

ParseParameter(match, pattern) ==
    IF Contains(pattern, ":") \/ Contains(pattern, "*")
    THEN LET p1 == Split(match, "/")
             p2 == Split(pattern, "/")
         IN  IF Len(p1) < Len(p2) THEN [result |-> <<>>, err |-> errBadPattern]
             ELSE parseLoop(p1, p2, 1, <<>>)
    ELSE [result |-> <<>>, err |-> errNil]

\* a Parameter map is a function from names to values
noParameter == [x \in {} |-> <<>>]

put(parameter, key, value) ==
    [x \in DOMAIN parameter \cup {key} |-> IF x = key THEN value ELSE parameter[x]]

\* the loop of Parameter.Load over the comma-separated entries
RECURSIVE loadLoop(_, _)
loadLoop(list, parameter) ==
    IF Len(list) = 0 THEN parameter
    ELSE LET variable == Split(Head(list), ":")
         IN  loadLoop(Tail(list),
                      IF Len(variable) # 2 THEN parameter
                      ELSE put(parameter, variable[1], variable[2]))

Load(source) == loadLoop(Split(source, ","), noParameter)

\* Parameter.Get: the value, or "" when the key is absent (or the map nil)
Get(parameter, key) ==
    IF key \in DOMAIN parameter THEN parameter[key] ELSE <<>>

\* GetParameter on a request whose "_alien" header holds value
GetParameter(value) == IF value # <<>> THEN Load(value) ELSE noParameter

---------------------------------------------------------------------------
(* Router                                                                  *)

\* snapshot without the copy: the Route keeps the handle's slice
snapshotAlias(arrs, wares, owner) == [arrays |-> arrs, slice |-> wares]

\* the Route's own copy of the wares: append(newRoute.middleware, wares...)
\* onto the nil slice when there are wares
snapshot(arrs, wares, owner) ==
    IF wares.len > 0 THEN appendSlice(arrs, nilSlice, view(arrs, wares), owner)
    ELSE [arrays |-> arrs, slice |-> nilSlice]

newRoot == [key |-> eof, value |-> 0, classify |-> NodeRoot, children |-> <<>>]

\* Router.addRoute: the Route is built, the method's root is made when it is
\* nil, and the pattern inserted below it
addRoute(ns, rt, rs, arrs, method, path, h, wares) ==
    LET mw == snapshot(arrs, wares, <<"route", Len(rs) + 1>>)
        newRoute == [path |-> path, handler |-> h, middleware |-> mw.slice]
        id == Len(rs) + 1
    IN  IF method \in AllMethod
        THEN LET fresh == rt[method] = 0
                 root == IF fresh THEN Len(ns) + 1 ELSE rt[method]
                 r == insert(IF fresh THEN Append(ns, newRoot) ELSE ns,
                             root, path, id)
             IN  [nodes |-> r.nodes, router |-> [rt EXCEPT ![method] = root],
                  routes |-> Append(rs, newRoute), arrays |-> mw.arrays,
                  route |-> id, err |-> r.err]
        ELSE [nodes |-> ns, router |-> rt, routes |-> Append(rs, newRoute),
              arrays |-> mw.arrays, route |-> id, err |-> errUnknownMethod]

\* Router.find with the GET trie as the default of the switch
RouterFindDefaultGet(ns, rt, method, path) ==
    LET m == IF method \in AllMethod THEN method ELSE "GET"
    IN  IF rt[m] # 0 THEN find(ns, rt[m], path)
        ELSE [route |-> 0, err |-> errRouteNotFound]

\* Router.find
RouterFind(ns, rt, method, path) ==
    IF method \in AllMethod /\ rt[method] # 0 THEN find(ns, rt[method], path)
    ELSE [route |-> 0, err |-> errRouteNotFound]

---------------------------------------------------------------------------
(* Mux                                                                     *)

defaultNotFound == "notFound404"

\* New()
newMux == [prefix |-> <<>>, notFound |-> defaultNotFound, middleware |-> nilSlice]

\* the pattern Mux.AddRoute hands to Router.addRoute
fullPattern(mux, pattern) ==
    IF mux.prefix # <<>> THEN Join(mux.prefix, pattern) ELSE pattern

\* the Mux that Mux.Group returns
groupOf(mux, pattern) ==
    [prefix |-> pattern, notFound |-> mux.notFound, middleware |-> mux.middleware]

\* what Mux.ServeHTTP does with a request of the given method and URL path
\* whose "_alien" header holds header0: the handlers invoked, in order
serveHTTP(h, method, rawPath, header0) ==
    LET p == Clean(rawPath)
        f == RouterFind(nodes, router, method, p)
    IN  IF f.err # errNil
        THEN [op |-> "ServeHTTP", mux |-> h, method |-> method,
              url |-> rawPath, path |-> p, route |-> 0,
              notFound |-> <<muxes[h].notFound>>, trace |-> <<>>,
              header |-> header0]
        ELSE LET params == ParseParameter(p, routes[f.route].path).result
             IN  [op |-> "ServeHTTP", mux |-> h, method |-> method,
                  url |-> rawPath, path |-> p, route |-> f.route,
                  notFound |-> <<>>,
                  trace |-> RouteServeHTTP(arrays, routes[f.route]),
                  header |-> IF params # <<>> THEN params ELSE header0]

\* Mux.ContainsRoute
containsRoute(path, method) ==
    IF method # ""
    THEN RouterFind(nodes, router, method, path).err = errNil
    ELSE \E m \in AllMethod : RouterFind(nodes, router, m, path).err = errNil

---------------------------------------------------------------------------
(* Bounds                                                                  *)

MaxRoutes == 2      \* AddRoute calls
MaxMux == 3         \* Mux handles: New() and the groups
MaxWares == 5       \* middlewares passed to Use

---------------------------------------------------------------------------
(* State machine                                                           *)

Init ==
    /\ nodes = <<>>
    /\ router = [m \in AllMethod |-> 0]
    /\ routes = <<>>
    /\ arrays = noArrays
    /\ muxes = <<newMux>>
    /\ ghost = <<[parent |-> 0, arg |-> <<>>, want |-> <<>>, own |-> 0]>>
    /\ regs = <<>>
    /\ resp = [op |-> "none"]
    /\ goroutines = <<>>
    /\ mutex = [w |-> {}, r |-> {}]

AddRoute(h, method, pattern, handler) ==
    /\ Len(regs) < MaxRoutes
    /\ LET full == fullPattern(muxes[h], pattern)
           r == addRoute(nodes, router, routes, arrays, method, full, handler,
                         muxes[h].middleware)
       IN  /\ nodes' = r.nodes
           /\ router' = r.router
           /\ routes' = r.routes
           /\ arrays' = r.arrays
           /\ regs' = Append(regs, [mux |-> h, method |-> method,
                                    pattern |-> pattern, path |-> full,
                                    handler |-> handler,
                                    route |-> r.route, err |-> r.err,
                                    want |-> ghost[h].want,
                                    snap |-> view(arrays, muxes[h].middleware)])
           /\ resp' = [op |-> "AddRoute", err |-> r.err]
    /\ UNCHANGED <<muxes, ghost, goroutines, mutex>>

Group(h, pattern) ==
    /\ Len(muxes) < MaxMux
    /\ muxes' = Append(muxes, groupOf(muxes[h], pattern))
    /\ ghost' = Append(ghost, [parent |-> h, arg |-> pattern, own |-> 0,
                               want |-> view(arrays, muxes[h].middleware)])
    /\ resp' = [op |-> "Group", new |-> Len(muxes) + 1]
    /\ UNCHANGED <<nodes, router, routes, arrays, regs, goroutines, mutex>>

\* the middlewares passed to Use so far, on the handles 1..h
RECURSIVE Passed(_)
Passed(h) == IF h = 0 THEN 0 ELSE ghost[h].own + Passed(h - 1)

\* the backing arrays a handle or a Route still refers to
live(arrs, ms, rs) ==
    LET used == {ms[h].middleware.arr : h \in 1..Len(ms)}
                \cup {rs[r].middleware.arr : r \in 1..Len(rs)}
    IN  [a \in DOMAIN arrs \cap used |-> arrs[a]]

Use(h, middleware) ==
    /\ Len(middleware) > 0
    /\ Passed(Len(muxes)) + Len(middleware) <= MaxWares
    /\ LET r == appendSlice(arrays, muxes[h].middleware, middleware, <<"mux", h>>)
           ms == [muxes EXCEPT ![h].middleware = r.slice]
       IN  /\ muxes' = ms
           /\ arrays' = live(r.arrays, ms, routes)
    /\ ghost' = [ghost EXCEPT ![h].want = @ \o middleware,
                              ![h].own = @ + Len(middleware)]
    /\ resp' = [op |-> "Use"]
    /\ UNCHANGED <<nodes, router, routes, regs, goroutines, mutex>>

NotFoundHandler(h, handler) ==
    /\ muxes' = [muxes EXCEPT ![h].notFound = handler]
    /\ resp' = [op |-> "NotFoundHandler"]
    /\ UNCHANGED <<nodes, router, routes, arrays, ghost, regs, goroutines, mutex>>

ContainsRoute(h, path, method) ==
    /\ resp' = [op |-> "ContainsRoute", mux |-> h, method |-> method,
                path |-> path, ok |-> containsRoute(path, method)]
    /\ UNCHANGED <<nodes, router, routes, arrays, muxes, ghost, regs,
                   goroutines, mutex>>

ServeHTTP(h, method, rawPath, header0) ==
    /\ resp' = serveHTTP(h, method, rawPath, header0)
    /\ UNCHANGED <<nodes, router, routes, arrays, muxes, ghost, regs,
                   goroutines, mutex>>

Mux == 1..Len(muxes)

---------------------------------------------------------------------------
(* Calls that run concurrently: Router.addRoute and Router.find, one step  *)
(* per read or write of what goroutines share                              *)

MaxGo == 3          \* goroutines started

\* node.mutex.Lock() always granted
canLockAlways(mx, root) == TRUE

\* node.mutex.Lock() can return: no writer and no reader holds the mutex
canLock(mx, root) == root \notin mx.w /\ \A x \in mx.r : x[1] # root

\* node.mutex.RLock() can return: no writer holds the mutex
canRLock(mx, root) == root \notin mx.w

noResult == [route |-> 0, err |-> "none"]

Goroutine == 1..Len(goroutines)

\* go r.addRoute(method, path, h) or go r.find(method, path).  The
\* goroutines are started before any of them runs, those of addRoute first;
\* the Route addRoute builds first, which no other goroutine can reach until
\* insert stores it, is allocated here.
Go(op, method, path) ==
    /\ Len(goroutines) < MaxGo
    /\ \A g \in Goroutine : goroutines[g].pc = goroutines[g].op
    /\ op = "addRoute" => \A g \in Goroutine : goroutines[g].op = "addRoute"
    /\ goroutines' = Append(goroutines,
           [op |-> op, method |-> method, path |-> path, pc |-> op, root |-> 0,
            level |-> 0, isParam |-> FALSE, index |-> 0,
            route |-> IF op = "addRoute" THEN Len(routes) + 1 ELSE 0,
            res |-> noResult])
    /\ routes' = IF op = "addRoute"
                 THEN Append(routes, [path |-> path, handler |-> "h1",
                                      middleware |-> nilSlice])
                 ELSE routes
    /\ UNCHANGED <<nodes, router, arrays, muxes, ghost, regs, resp, mutex>>

\* addRoute: the method's field compared with nil
addRouteNew(g) ==
    LET G == goroutines[g]
    IN  /\ G.pc = "addRoute"
        /\ goroutines' = [goroutines EXCEPT ![g] =
               IF G.method \notin AllMethod
               THEN [@ EXCEPT !.pc = "done",
                              !.res = [route |-> 0, err |-> errUnknownMethod]]
               ELSE [@ EXCEPT !.pc = IF router[G.method] = 0 THEN "mkroot"
                                     ELSE "insert"]]
        /\ UNCHANGED <<nodes, router, routes, arrays, muxes, ghost, regs, resp,
                       mutex>>

\* addRoute: r.get = &Node{classify: NodeRoot}
addRouteRoot(g) ==
    LET G == goroutines[g]
    IN  /\ G.pc = "mkroot"
        /\ nodes' = Append(nodes, newRoot)
        /\ router' = [router EXCEPT ![G.method] = Len(nodes) + 1]
        /\ goroutines' = [goroutines EXCEPT ![g].pc = "insert"]
        /\ UNCHANGED <<routes, arrays, muxes, ghost, regs, resp, mutex>>

\* addRoute: the method's field read for r.get.insert(path, newRoute)
addRouteInsert(g) ==
    LET G == goroutines[g]
    IN  /\ G.pc = "insert"
        /\ goroutines' = [goroutines EXCEPT ![g].root = router[G.method],
                                            ![g].pc = "Lock"]
        /\ UNCHANGED <<nodes, router, routes, arrays, muxes, ghost, regs, resp,
                       mutex>>

\* insert: node.mutex.Lock() and the checks before the loop
insertLock(g) ==
    LET G == goroutines[g]
        err == IF nodes[G.root].classify # NodeRoot THEN errNonRoot
               ELSE IF G.path = <<>> THEN errEmptyPattern
               ELSE IF G.path[1] # "/" THEN errNoSlash
               ELSE errNil
    IN  /\ G.pc = "Lock"
        /\ canLock(mutex, G.root)
        /\ mutex' = [mutex EXCEPT !.w = @ \cup {G.root}]
        /\ goroutines' = [goroutines EXCEPT ![g] =
               IF err # errNil
               THEN [@ EXCEPT !.pc = "Unlock", !.res = [route |-> 0, err |-> err]]
               ELSE [@ EXCEPT !.pc = "loop", !.level = G.root, !.index = 1]]
        /\ UNCHANGED <<nodes, router, routes, arrays, muxes, ghost, regs, resp>>

\* insert: one iteration of the loop
insertIter(g) ==
    LET G == goroutines[g]
    IN  /\ G.pc = "loop" /\ G.index <= Len(G.path)
        /\ LET s == insertStep(nodes, G.level, G.path[G.index])
           IN  /\ nodes' = s.nodes
               /\ goroutines' = [goroutines EXCEPT ![g].level = s.level,
                                                   ![g].index = G.index + 1]
        /\ UNCHANGED <<router, routes, arrays, muxes, ghost, regs, resp, mutex>>

\* insert: level.branch(eof, value, nodeEnd) after the loop
insertLast(g) ==
    LET G == goroutines[g]
    IN  /\ G.pc = "loop" /\ G.index > Len(G.path)
        /\ nodes' = insertEnd(nodes, G.level, G.route)
        /\ goroutines' = [goroutines EXCEPT ![g].pc = "Unlock",
               ![g].res = [route |-> G.route, err |-> errNil]]
        /\ UNCHANGED <<router, routes, arrays, muxes, ghost, regs, resp, mutex>>

\* insert: the deferred node.mutex.Unlock() and the return
insertUnlock(g) ==
    LET G == goroutines[g]
    IN  /\ G.pc = "Unlock"
        /\ mutex' = [mutex EXCEPT !.w = @ \ {G.root}]
        /\ goroutines' = [goroutines EXCEPT ![g].pc = "done"]
        /\ UNCHANGED <<nodes, router, routes, arrays, muxes, ghost, regs, resp>>

\* Router.find: the method's field read and compared with nil
findRouter(g) ==
    LET G == goroutines[g]
    IN  /\ G.pc = "find"
        /\ goroutines' = [goroutines EXCEPT ![g] =
               IF G.method \in AllMethod /\ router[G.method] # 0
               THEN [@ EXCEPT !.root = router[G.method], !.pc = "RLock"]
               ELSE [@ EXCEPT !.pc = "done",
                              !.res = [route |-> 0, err |-> errRouteNotFound]]]
        /\ UNCHANGED <<nodes, router, routes, arrays, muxes, ghost, regs, resp,
                       mutex>>

\* find: node.mutex.RLock() and the check before the loop
findRLock(g) ==
    LET G == goroutines[g]
    IN  /\ G.pc = "RLock"
        /\ canRLock(mutex, G.root)
        /\ mutex' = [mutex EXCEPT !.r = @ \cup {<<G.root, g>>}]
        /\ goroutines' = [goroutines EXCEPT ![g] =
               IF nodes[G.root].classify # NodeRoot
               THEN [@ EXCEPT !.pc = "RUnlock",
                              !.res = [route |-> 0, err |-> "non Node search"]]
               ELSE [@ EXCEPT !.pc = IF G.path = <<>> THEN "RUnlock" ELSE "walk",
                              !.res = IF G.path = <<>>
                                      THEN [route |-> 0, err |-> errRouteNotFound]
                                      ELSE noResult,
                              !.level = G.root, !.isParam = FALSE, !.index = 1]]
        /\ UNCHANGED <<nodes, router, routes, arrays, muxes, ghost, regs, resp>>

\* find: one iteration of the loop
findIter(g) ==
    LET G == goroutines[g]
    IN  /\ G.pc = "walk"
        /\ LET s == findStep(nodes, G.level, G.isParam, G.path[G.index])
           IN  goroutines' = [goroutines EXCEPT ![g] =
                   IF s.go = "return"
                   THEN [@ EXCEPT !.pc = "RUnlock",
                                  !.res = [route |-> 0, err |-> errRouteNotFound]]
                   ELSE [@ EXCEPT !.level = s.level, !.isParam = s.isParam,
                                  !.index = G.index + 1,
                                  !.pc = IF s.go = "break" \/ G.index = Len(G.path)
                                         THEN "end" ELSE "walk"]]
        /\ UNCHANGED <<nodes, router, routes, arrays, muxes, ghost, regs, resp,
                       mutex>>

\* find: the Route looked for below the level the loop ended on
findLast(g) ==
    LET G == goroutines[g]
    IN  /\ G.pc = "end"
        /\ goroutines' = [goroutines EXCEPT ![g].pc = "RUnlock",
                                            ![g].res = findEnd(nodes, G.level)]
        /\ UNCHANGED <<nodes, router, routes, arrays, muxes, ghost, regs, resp,
                       mutex>>

\* find: the deferred node.mutex.RUnlock() and the return
findRUnlock(g) ==
    LET G == goroutines[g]
    IN  /\ G.pc = "RUnlock"
        /\ mutex' = [mutex EXCEPT !.r = @ \ {<<G.root, g>>}]
        /\ goroutines' = [goroutines EXCEPT ![g].pc = "done"]
        /\ UNCHANGED <<nodes, router, routes, arrays, muxes, ghost, regs, resp>>

---------------------------------------------------------------------------
(* Inputs                                                                  *)

Path(segs) == <<"/">> \o JoinStr(segs, "/")

sa == <<"a">>
sbc == <<"b", "c">>
sd == <<"d">>
px == <<":", "x">>
py == <<":", "y">>
star == <<"*">>
starn == <<"*", "n">>

ValueSegs == {sa, sbc, sd}

\* patterns on the GET trie: literal, parameter and catch-all segments, the
\* same literal path below a parameter and below a literal, two names for
\* one parameter
TriePatterns ==
    {Path(<<s>>) : s \in {sa, px}}
    \cup {Path(<<sa, t>>) : t \in {sbc, px, py, star, starn}}
    \cup {Path(<<px, sbc>>)}

\* request paths of one and two segments, and of three below /a
TriePaths ==
    {Path(<<s>>) : s \in ValueSegs}
    \cup {Path(<<s, t>>) : s \in ValueSegs, t \in ValueSegs}
    \cup {Path(<<sa, t, u>>) : t \in ValueSegs, u \in ValueSegs}

\* registrations and lookups on the GET trie through the handle New() returns
NextTrie ==
    \/ \E p \in TriePatterns : AddRoute(1, "GET", p, "h1")
    \/ \E p \in TriePaths : ServeHTTP(1, "GET", p, <<>>)

SpecTrie == Init /\ [][NextTrie]_vars

---------------------------------------------------------------------------
(* What a pattern means                                                    *)

segsOf(p) == Tail(Split(p, "/"))         \* the segments after the first "/"
isParamSeg(v) == Len(v) > 1 /\ v[1] = ":"
isCatchSeg(v) == Len(v) > 0 /\ v[1] = "*"
isNamedCatch(v) == Len(v) > 1 /\ v[1] = "*"
endsInCatch(ps) == Len(ps) > 0 /\ isCatchSeg(ps[Len(ps)])

\* path is pattern with each :name replaced by a non-empty segment and a
\* final catch-all by one or more segments
Generates(pattern, path) ==
    LET ps == segsOf(pattern)
        qs == segsOf(path)
        fixed == IF endsInCatch(ps) THEN Len(ps) - 1 ELSE Len(ps)
    IN  /\ \A i \in 1..Len(qs) : qs[i] # <<>>
        /\ IF endsInCatch(ps) THEN Len(qs) >= Len(ps) ELSE Len(qs) = Len(ps)
        /\ \A i \in 1..fixed : isParamSeg(ps[i]) \/ ps[i] = qs[i]

\* the name of a parameter or catch-all segment
nameOf(v) == IF Len(v) > 1 THEN Tail(v) ELSE catch

\* the parameters of path under pattern: each name with the segment at its
\* place, a catch-all's name with the rest of the path
Expected(pattern, path) ==
    LET ps == segsOf(pattern)
        qs == segsOf(path)
        at == {i \in 1..Len(ps) : isParamSeg(ps[i]) \/ isCatchSeg(ps[i])}
    IN  [nm \in {nameOf(ps[i]) : i \in at} |->
            LET i == CHOOSE j \in at : nameOf(ps[j]) = nm
            IN  IF isCatchSeg(ps[i]) THEN JoinStr(SubSeq(qs, i, Len(qs)), "/")
                ELSE qs[i]]

hasParam(pattern) == \E i \in 1..Len(segsOf(pattern)) : isParamSeg(segsOf(pattern)[i])
isLiteral(pattern) == ~Contains(pattern, ":") /\ ~Contains(pattern, "*")

\* the registrations that returned nil
Done == {i \in 1..Len(regs) : regs[i].err = errNil}

\* a lookup on the tries as they are
Lookup(method, path) == RouterFind(nodes, router, method, path)

\* what a handler reads through GetParameter when path was matched to route
Read(path, route) == GetParameter(ParseParameter(path, routes[route].path).result)

---------------------------------------------------------------------------
(* Claims on the trie, under SpecTrie                                      *)

\* C1: every registered pattern P is found at every path P generates by
\* substitution: the lookup returns the Route registered for P.
C1_FindReturnsRegistered ==
    \A i \in Done : \A path \in TriePaths :
        Generates(regs[i].path, path)
            => Lookup(regs[i].method, path) = [route |-> regs[i].route, err |-> errNil]

\* C3: when a pattern ending in a named catch-all *name is the one
\* registered, a lookup of prefix/s1/.../sk (k >= 1) finds its Route and the
\* parameters are exactly {name: s1/.../sk}.
C3_NamedCatchAll ==
    \A i \in Done : \A path \in TriePaths :
        /\ Len(regs) = 1
        /\ isNamedCatch(segsOf(regs[i].path)[Len(segsOf(regs[i].path))])
        /\ Generates(regs[i].path, path)
        => /\ Lookup(regs[i].method, path) = [route |-> regs[i].route, err |-> errNil]
           /\ Read(path, regs[i].route) = Expected(regs[i].path, path)

\* the iterations of the loop of node.find along path, from iteration k on
RECURSIVE findStates(_, _, _, _, _)
findStates(ns, level, isParam, path, k) ==
    IF k > Len(path) THEN <<>>
    ELSE LET s == findStep(ns, level, isParam, path[k])
         IN  <<[level |-> level, isParam |-> isParam, ch |-> path[k], next |-> s]>>
             \o (IF s.go = "continue"
                 THEN findStates(ns, s.level, s.isParam, path, k + 1) ELSE <<>>)

\* a parameter pattern and a literal pattern it generates
Shadows(i, j) ==
    /\ i \in Done /\ j \in Done /\ regs[i].method = regs[j].method
    /\ hasParam(regs[i].path) /\ ~Contains(regs[i].path, "*")
    /\ isLiteral(regs[j].path)
    /\ Generates(regs[i].path, regs[j].path)

\* C4: at a node with a Parameter child and a Literal child for the current
\* character, find goes into the Parameter child; with /a/:x and /a/bc both
\* registered, in either order, /a/bc is never resolved to the Route of
\* /a/bc, and when they are the two registered it is resolved to the Route of
\* /a/:x with {x: "bc"}.
C4_ParameterBeatsLiteral ==
    /\ \A path \in TriePaths :
        router["GET"] # 0 =>
            LET it == findStates(nodes, router["GET"], FALSE, path, 1)
            IN  \A k \in 1..Len(it) :
                    /\ ~(it[k].isParam /\ it[k].ch # "/")
                    /\ findChild(nodes, it[k].level, ":") # 0
                    /\ findChild(nodes, it[k].level, it[k].ch) # 0
                    => /\ it[k].next.level = findChild(nodes, it[k].level, ":")
                       /\ it[k].next.go = "continue"
    /\ \A i \in Done : \A j \in Done :
        Shadows(i, j) =>
            /\ Lookup(regs[j].method, regs[j].path).route # regs[j].route
            /\ Len(regs) = 2 =>
                /\ Lookup(regs[j].method, regs[j].path)
                       = [route |-> regs[i].route, err |-> errNil]
                /\ Read(regs[j].path, regs[i].route)
                       = Expected(regs[i].path, regs[j].path)

\* C4 witness: the literal pattern was registered first, the parameter
\* pattern second, and a request for the literal path went to the parameter
\* pattern's Route.
C4_Witness ==
    /\ resp.op = "ServeHTTP"
    /\ Len(regs) = 2 /\ Shadows(2, 1)
    /\ resp.path = regs[1].path
    /\ resp.route = regs[2].route
    /\ GetParameter(resp.header) = Expected(regs[2].path, regs[1].path)

\* C5: after two successful registrations of one pattern, with R1 then R2, a
\* lookup of a path the pattern generates that finds a Route finds R2.
C5_LastRegistrationShadows ==
    \A i \in Done : \A j \in Done : \A path \in TriePaths :
        /\ i < j /\ Len(regs) = j
        /\ regs[i].method = regs[j].method /\ regs[i].path = regs[j].path
        /\ Generates(regs[j].path, path)
        /\ Lookup(regs[j].method, path).err = errNil
        => Lookup(regs[j].method, path).route = regs[j].route

---------------------------------------------------------------------------
(* Groups and middleware lists, under SpecGroup and SpecWares              *)

\* k middlewares for a Use call on handle h that no other call passes: every
\* func value is its own
Fresh(h, k) ==
    [i \in 1..k |-> "m" \o ToString(h) \o "." \o ToString(Len(ghost[h].want) + i)]

GroupPrefixes == {Path(<<sa>>), Path(<<sbc>>)}

\* the request paths /d, /p/d and /p/q/d for the group prefixes p, q
MuxPaths ==
    {Path(<<sd>>)}
    \cup {p \o Path(<<sd>>) : p \in GroupPrefixes}
    \cup {p \o q \o Path(<<sd>>) : p \in GroupPrefixes, q \in GroupPrefixes}

\* groups of groups, the pattern /d registered through any handle, lookups
NextGroup ==
    \/ \E h \in Mux : \E p \in GroupPrefixes : Group(h, p)
    \/ \E h \in Mux : AddRoute(h, "GET", Path(<<sd>>), "h1")
    \/ \E p \in MuxPaths : ServeHTTP(1, "GET", p, <<>>)

SpecGroup == Init /\ [][NextGroup]_vars

MaxSnap == 1        \* AddRoute calls under SpecWares, SpecServe, SpecChain
MaxShare == 2       \* Mux handles under SpecWares, SpecServe, SpecReject

\* groups of groups, Use with one or two middlewares on any handle, the
\* pattern /d registered through any handle
NextWares ==
    \/ \E h \in Mux : Len(muxes) < MaxShare /\ Group(h, Path(<<sa>>))
    \/ \E h \in Mux : \E k \in {1, 2} : Use(h, Fresh(h, k))
    \/ \E h \in Mux : Len(regs) < MaxSnap /\ AddRoute(h, "GET", Path(<<sd>>), "h1")

SpecWares == Init /\ [][NextWares]_vars

\* C6: the handle Group(p) returns on a handle of prefix q has the prefix q
\* followed by p, and a pattern r registered through m.Group(p1).Group(p2)
\* is found at p1 + p2 + r (and, when it is the one registration, not at
\* p2 + r).
C6_GroupPrefixNests ==
    /\ \A h \in Mux :
        ghost[h].parent # 0
            => muxes[h].prefix = muxes[ghost[h].parent].prefix \o ghost[h].arg
    /\ \A i \in Done :
        LET g2 == regs[i].mux
            g1 == ghost[g2].parent
        IN  g1 # 0 /\ ghost[g1].parent = 1 =>
                LET p1 == ghost[g1].arg
                    p2 == ghost[g2].arg
                IN  /\ Lookup("GET", p1 \o p2 \o regs[i].pattern).err = errNil
                    /\ Len(regs) = 1
                           => Lookup("GET", p2 \o regs[i].pattern).err # errNil

\* C7: the middleware list of every handle is the list its parent had when
\* the handle was made followed by the middlewares passed to Use on the
\* handle itself, in call order, whatever was done with other handles; and
\* every Route holds the list of its handle at registration.
C7_ListsIndependent ==
    /\ \A h \in Mux : view(arrays, muxes[h].middleware) = ghost[h].want
    /\ \A i \in 1..Len(regs) :
        view(arrays, routes[regs[i].route].middleware) = regs[i].want

---------------------------------------------------------------------------
(* Dispatch, under SpecServe                                               *)

sef == <<"e", ":", "f">>

ServeMethods == {"GET", "PUT", "BREW"}

\* one parameter after a literal, two parameters
ServePatterns == {Path(<<sa, px>>), Path(<<px, py>>)}

\* request paths: parameter values with and without a ":", a path that is
\* too short, one that path.Clean shortens
ServePaths ==
    {Path(<<sa, sbc>>), Path(<<sd, sbc>>), Path(<<sa, sef>>), Path(<<sa>>),
     Path(<<sa, sd>>) \o <<"/">>}

\* registrations for known and unknown methods, a group with its own
\* notFound handler, requests through either handle
NextServe ==
    \/ /\ Len(regs) < MaxSnap
       /\ \E m \in ServeMethods : \E p \in ServePatterns : AddRoute(1, m, p, "h1")
    \/ Len(muxes) < MaxShare /\ Group(1, Path(<<sa>>))
    \/ \E h \in Mux : NotFoundHandler(h, "notFound1")
    \/ \E h \in Mux : \E m \in ServeMethods : \E p \in ServePaths :
           ServeHTTP(h, m, p, <<>>)
    \/ \E m \in {"", "PUT"} : ContainsRoute(1, Path(<<sa, sbc>>), m)

SpecServe == Init /\ [][NextServe]_vars

\* the registrations that returned nil for method
DoneFor(method) == {i \in Done : regs[i].method = method}

distinctNames(pattern) ==
    \A i \in 1..Len(segsOf(pattern)) : \A j \in 1..Len(segsOf(pattern)) :
        i # j /\ isParamSeg(segsOf(pattern)[i]) /\ isParamSeg(segsOf(pattern)[j])
            => segsOf(pattern)[i] # segsOf(pattern)[j]

\* C2: when a pattern of literal and :name segments (distinct names) is the
\* one route of a method, a request whose path has as many segments and the
\* same literal segments invokes the route's handler, and there
\* GetParameter(request).Get(name) is the path segment at the place of :name.
C2_ParameterIsSegment ==
    resp.op = "ServeHTTP" =>
        \A i \in DoneFor(resp.method) :
            /\ DoneFor(resp.method) = {i}
            /\ hasParam(regs[i].path) /\ ~Contains(regs[i].path, "*")
            /\ distinctNames(regs[i].path)
            /\ Generates(regs[i].path, resp.url)
            => /\ resp.route = regs[i].route
               /\ resp.trace = <<regs[i].handler>>
               /\ \A k \in 1..Len(segsOf(regs[i].path)) :
                    isParamSeg(segsOf(regs[i].path)[k]) =>
                        Get(GetParameter(resp.header), Tail(segsOf(regs[i].path)[k]))
                            = segsOf(resp.url)[k]

\* C10: a dispatched request invokes exactly one of the handle's notFound
\* handler and the found Route's chain, once: notFound exactly when the
\* lookup of (method, cleaned path) fails, as it does for a method outside
\* AllMethod and for a method no route was registered for.
C10_OneHandlerPerRequest ==
    resp.op = "ServeHTTP" =>
        LET f == Lookup(resp.method, Clean(resp.url))
        IN  /\ Len(resp.notFound) + (IF resp.trace = <<>> THEN 0 ELSE 1) = 1
            /\ f.err # errNil <=> resp.notFound = <<muxes[resp.mux].notFound>>
            /\ f.err = errNil <=>
                   /\ resp.route = f.route /\ f.route \in 1..Len(routes)
                   /\ resp.trace = RouteServeHTTP(arrays, routes[f.route])
                   /\ resp.notFound = <<>>
            /\ resp.method \notin AllMethod => resp.notFound # <<>>
            /\ DoneFor(resp.method) = {} => resp.notFound # <<>>

\* C10 witness: a request for a method no route was registered for, made
\* through a group whose notFound handler differs from its parent's, while a
\* route for the same path exists under another method.
C10_Witness ==
    /\ resp.op = "ServeHTTP"
    /\ resp.method \in AllMethod /\ DoneFor(resp.method) = {}
    /\ resp.mux # 1 /\ muxes[resp.mux].notFound # muxes[1].notFound
    /\ resp.notFound = <<muxes[resp.mux].notFound>>
    /\ \E i \in Done : Lookup(regs[i].method, resp.path).err = errNil

---------------------------------------------------------------------------
(* Route invocation, under SpecChain                                       *)

Named == {"m1", "m2", "stop"}

\* Use with one middleware at a time, passing or blocking; a route
\* registered with the list as it is; requests for it
NextChain ==
    \/ \E w \in Named : Use(1, <<w>>)
    \/ Len(regs) < MaxSnap /\ AddRoute(1, "GET", Path(<<sbc>>), "h1")
    \/ ServeHTTP(1, "GET", Path(<<sbc>>), <<>>)

SpecChain == Init /\ [][NextChain]_vars

\* what runs of the list w[1..n] (registration order) around handler: w[n],
\* w[n-1], ... down to the first one that does not call onward, else handler
RECURSIVE Entered(_, _, _)
Entered(w, n, handler) ==
    IF n = 0 THEN <<handler>>
    ELSE IF w[n] \in Blocking THEN <<w[n]>>
    ELSE <<w[n]>> \o Entered(w, n - 1, handler)

\* C9: invoking a Route whose list is [w0..w(n-1)] enters w(n-1), w(n-2),
\* ..., w0 and then the handler; after a wi that does not call onward nothing
\* else runs.
C9_LastRegisteredOutermost ==
    resp.op = "ServeHTTP" /\ resp.route # 0 =>
        LET w == view(arrays, routes[resp.route].middleware)
        IN  resp.trace = Entered(w, Len(w), routes[resp.route].handler)

\* C9 witness: a Route with three middlewares, the middle one blocking, was
\* invoked: the last one ran, then the blocking one, and nothing else.
C9_Witness ==
    /\ resp.op = "ServeHTTP" /\ resp.route # 0
    /\ LET w == view(arrays, routes[resp.route].middleware)
       IN  /\ Len(w) = 3 /\ w[1] = "m1" /\ w[2] = "stop" /\ w[3] = "m2"
           /\ resp.trace = <<"m2", "stop">>

---------------------------------------------------------------------------
(* More claims on the trie, under SpecTrie                                 *)

\* a pattern ending in a bare * and the same pattern ending in :name
Rivals(i, j) ==
    /\ i \in Done /\ j \in Done /\ regs[i].method = regs[j].method
    /\ LET ps == segsOf(regs[i].path)
           qs == segsOf(regs[j].path)
       IN  /\ Len(ps) = Len(qs) /\ Len(ps) > 0
           /\ ps[Len(ps)] = star /\ isParamSeg(qs[Len(qs)])
           /\ SubSeq(ps, 1, Len(ps) - 1) = SubSeq(qs, 1, Len(qs) - 1)

\* C14: at a node with a CatchAll child and a Parameter child, a lookup that
\* reaches it with a character left goes into the CatchAll child and stops;
\* with /a/* and /a/:x the two registrations, in either order, every path
\* /a/* generates resolves to the Route of /a/*.
C14_CatchAllBeatsParameter ==
    /\ \A path \in TriePaths :
        router["GET"] # 0 =>
            LET it == findStates(nodes, router["GET"], FALSE, path, 1)
            IN  \A k \in 1..Len(it) :
                    /\ ~(it[k].isParam /\ it[k].ch # "/")
                    /\ findChild(nodes, it[k].level, "*") # 0
                    /\ findChild(nodes, it[k].level, ":") # 0
                    => /\ it[k].next.level = findChild(nodes, it[k].level, "*")
                       /\ it[k].next.go = "break"
    /\ \A i \in Done : \A j \in Done : \A path \in TriePaths :
        Rivals(i, j) /\ Len(regs) = 2 /\ Generates(regs[i].path, path)
            => Lookup(regs[i].method, path) = [route |-> regs[i].route, err |-> errNil]

\* C15: no node has two children with the same key, the key of the terminal
\* child included.
C15_SiblingKeysUnique ==
    \A n \in 1..Len(nodes) :
        \A a \in 1..Len(nodes[n].children) : \A b \in 1..Len(nodes[n].children) :
            a # b => nodes[nodes[n].children[a]].key # nodes[nodes[n].children[b]].key

---------------------------------------------------------------------------
(* Parameters a handler reads, under SpecParams                            *)

\* the "_alien" header: absent, or holding x:d
Headers == {<<>>, <<"x", ":", "d">>}

\* a bare catch-all, a parameter and a literal pattern
ParamPatterns == {Path(<<sa, star>>), Path(<<sa, px>>), Path(<<sa>>)}

\* paths of one to three segments, one with a ":" in a segment, one that
\* no pattern generates
ParamPaths ==
    {Path(<<sa>>), Path(<<sd>>), Path(<<sa, sbc>>), Path(<<sa, sbc, sd>>),
     Path(<<sa, sef>>)}

\* registrations on the GET trie and requests that arrive with and without
\* the header
NextParams ==
    \/ \E p \in ParamPatterns : AddRoute(1, "GET", p, "h1")
    \/ \E p \in ParamPaths : \E hd \in Headers : ServeHTTP(1, "GET", p, hd)

SpecParams == Init /\ [][NextParams]_vars

\* C13: when a pattern ending in a bare * is the one registered, a lookup of
\* prefix/s1/.../sk (k >= 1) finds its Route and the parameters read are
\* exactly {catch: s1/.../sk}.
C13_BareCatchAll ==
    \A i \in Done : \A path \in ParamPaths :
        /\ Len(regs) = 1
        /\ segsOf(regs[i].path)[Len(segsOf(regs[i].path))] = star
        /\ Generates(regs[i].path, path)
        => /\ Lookup(regs[i].method, path) = [route |-> regs[i].route, err |-> errNil]
           /\ Read(path, regs[i].route) = Expected(regs[i].path, path)

\* C17: what the handler of a dispatched request reads through GetParameter
\* is what it reads when the request arrives without the header, whatever
\* the header held on arrival, and nothing when the pattern has no : or *.
C17_ParametersFromPathOnly ==
    resp.op = "ServeHTTP" /\ resp.route # 0 =>
        /\ GetParameter(resp.header)
               = GetParameter(serveHTTP(resp.mux, resp.method, resp.url, <<>>).header)
        /\ isLiteral(routes[resp.route].path)
               => GetParameter(resp.header) = noParameter

---------------------------------------------------------------------------
(* Registrations that fail, under SpecReject                               *)

\* the empty pattern, one without the leading "/", a valid one
RejectPatterns == {<<>>, sd, Path(<<sa>>)}

RejectPaths == {sd, Path(<<sa>>), Path(<<sd>>), Path(<<sa, sd>>), Path(<<sa, sa>>)}

\* registrations through New()'s handle and a group of it, for known and
\* unknown methods, and requests
NextReject ==
    \/ \E h \in Mux : \E m \in {"GET", "BREW"} : \E p \in RejectPatterns :
           AddRoute(h, m, p, "h1")
    \/ Len(muxes) < MaxShare /\ Group(1, Path(<<sa>>))
    \/ \E p \in RejectPaths : ServeHTTP(1, "GET", p, <<>>)

SpecReject == Init /\ [][NextReject]_vars

\* what addRoute rejects: an empty pattern, one not starting with "/", a
\* method outside AllMethod
Rejected(method, pattern) ==
    pattern = <<>> \/ pattern[1] # "/" \/ method \notin AllMethod

\* every lookup gives after the step what it gave before it
SameLookups ==
    \A m \in ServeMethods : \A p \in RejectPaths :
        RouterFind(nodes', router', m, p) = RouterFind(nodes, router, m, p)

\* C12 as stated: a registration call with an empty pattern, a pattern
\* without the leading "/", or an unknown method returns an error, every
\* lookup is as before, and no node was added to any trie.
C12_AsStated ==
    [][regs' # regs =>
        LET r == regs'[Len(regs')]
        IN  Rejected(r.method, r.pattern) =>
                /\ r.err # errNil
                /\ SameLookups
                /\ nodes' = nodes /\ router' = router]_vars

\* C12: a registration whose pattern, with the handle's prefix joined to it,
\* is empty or lacks the leading "/", or whose method is unknown, returns an
\* error and every lookup is as before: no Route was stored in a trie and no
\* node was added but the empty root of the method's trie when it had none.
C12_FailedRegistrationNoEffect ==
    [][regs' # regs =>
        LET r == regs'[Len(regs')]
        IN  Rejected(r.method, r.path) =>
                /\ r.err # errNil
                /\ SameLookups
                /\ nodes' \in {nodes, Append(nodes, newRoot)}
                /\ \A m \in AllMethod :
                       router'[m] # router[m] =>
                           /\ m = r.method /\ router[m] = 0
                           /\ router'[m] = Len(nodes') /\ nodes' # nodes]_vars

\* C12 witness: a registration without the leading "/" failed on a method
\* that has a Route, and that Route is still found.
C12_Witness ==
    /\ resp.op = "AddRoute" /\ resp.err = errNoSlash
    /\ Len(regs) = 2 /\ regs[1].err = errNil
    /\ regs[2].method = regs[1].method /\ regs[2].path = sd
    /\ Lookup(regs[1].method, regs[1].path) = [route |-> regs[1].route, err |-> errNil]

---------------------------------------------------------------------------
(* Concurrent registrations and lookups, under SpecRace                    *)

\* two literal patterns neither of which the other generates
RacePatterns == {Path(<<sa>>), Path(<<sd>>)}

\* goroutines that register the patterns for GET, each pattern once, or look
\* /a up, from a fresh Router on
NextRace ==
    \/ \E p \in RacePatterns :
           /\ \A g \in Goroutine : goroutines[g].path # p
           /\ Go("addRoute", "GET", p)
    \/ Go("find", "GET", Path(<<sa>>))
    \/ \E g \in Goroutine : addRouteNew(g)
    \/ \E g \in Goroutine : addRouteRoot(g)
    \/ \E g \in Goroutine : addRouteInsert(g)
    \/ \E g \in Goroutine : insertLock(g)
    \/ \E g \in Goroutine : insertIter(g)
    \/ \E g \in Goroutine : insertLast(g)
    \/ \E g \in Goroutine : insertUnlock(g)
    \/ \E g \in Goroutine : findRouter(g)
    \/ \E g \in Goroutine : findRLock(g)
    \/ \E g \in Goroutine : findIter(g)
    \/ \E g \in Goroutine : findLast(g)
    \/ \E g \in Goroutine : findRUnlock(g)

SpecRace == Init /\ [][NextRace]_vars

Adding == {g \in Goroutine : goroutines[g].op = "addRoute"}
Finding == {g \in Goroutine : goroutines[g].op = "find"}

\* the goroutines inside insert and inside find on the trie of root
Inserting(root) ==
    {g \in Adding : goroutines[g].root = root /\ goroutines[g].pc \in {"loop", "Unlock"}}
Walking(root) ==
    {g \in Finding : goroutines[g].root = root
                     /\ goroutines[g].pc \in {"walk", "end", "RUnlock"}}

\* C11: once concurrent registrations of distinct valid patterns on one
\* method have all returned nil, a lookup finds every one of them.
C11_NoRegistrationLost ==
    /\ \A g \in Adding : goroutines[g].pc = "done" /\ goroutines[g].res.err = errNil
    /\ \A g \in Adding : \A k \in Adding :
           g # k => goroutines[g].path # goroutines[k].path
    => \A g \in Adding :
           Lookup(goroutines[g].method, goroutines[g].path)
               = [route |-> goroutines[g].route, err |-> errNil]

\* C16: on the trie of one root no two goroutines are inside insert, none is
\* inside find while one is inside insert, and the result a find returns is
\* the result on the trie as it stands, which no insert is part-way through.
C16_InsertExcludesFind ==
    /\ \A root \in 1..Len(nodes) :
        /\ Cardinality(Inserting(root)) <= 1
        /\ Inserting(root) # {} => Walking(root) = {}
    /\ \A g \in Finding :
        goroutines[g].pc = "RUnlock"
            => goroutines[g].res = find(nodes, goroutines[g].root, goroutines[g].path)

\* C16 witness: two finds are inside the loop on one trie at the same time
\* while an insert on that trie waits for the lock, and a find that began
\* before it has returned.
C16_Witness ==
    \E f \in Finding : \E h \in Finding : \E a \in Adding :
        /\ f # h
        /\ goroutines[f].pc = "walk" /\ goroutines[h].pc \in {"walk", "end"}
        /\ goroutines[f].root = goroutines[h].root
        /\ goroutines[a].pc = "Lock" /\ goroutines[a].root = goroutines[f].root

---------------------------------------------------------------------------
(* The whole machine                                                       *)

Next ==
    \/ \E h \in Mux : \E m \in ServeMethods :
       \E p \in TriePatterns \cup ServePatterns \cup ParamPatterns \cup RejectPatterns :
           AddRoute(h, m, p, "h1")
    \/ \E h \in Mux : \E p \in GroupPrefixes : Group(h, p)
    \/ \E h \in Mux : \E k \in {1, 2} : Use(h, Fresh(h, k))
    \/ \E h \in Mux : \E w \in Named : Use(h, <<w>>)
    \/ \E h \in Mux : NotFoundHandler(h, "notFound1")
    \/ \E h \in Mux : \E m \in ServeMethods \cup {""} :
       \E p \in TriePaths \cup MuxPaths \cup ServePaths : ContainsRoute(h, p, m)
    \/ \E op \in {"addRoute", "find"} : \E m \in ServeMethods :
       \E p \in RacePatterns : Go(op, m, p)
    \/ \E g \in Goroutine : addRouteNew(g)
    \/ \E g \in Goroutine : addRouteRoot(g)
    \/ \E g \in Goroutine : addRouteInsert(g)
    \/ \E g \in Goroutine : insertLock(g)
    \/ \E g \in Goroutine : insertIter(g)
    \/ \E g \in Goroutine : insertLast(g)
    \/ \E g \in Goroutine : insertUnlock(g)
    \/ \E g \in Goroutine : findRouter(g)
    \/ \E g \in Goroutine : findRLock(g)
    \/ \E g \in Goroutine : findIter(g)
    \/ \E g \in Goroutine : findLast(g)
    \/ \E g \in Goroutine : findRUnlock(g)
    \/ \E h \in Mux : \E m \in ServeMethods :
       \E p \in TriePaths \cup MuxPaths \cup ServePaths \cup ParamPaths \cup RejectPaths :
       \E hd \in Headers : ServeHTTP(h, m, p, hd)

Spec == Init /\ [][Next]_vars

====
